---- MODULE Spec2Model ----
(***************************************************************************)
(* Model of the drone emulator (src/drone.py) and of the fleet controller  *)
(* (src/drones.py).                                                         *)
(*                                                                         *)
(* Numbers.  The emulator computes in floating point; the model computes   *)
(* in fixed point:                                                         *)
(*   - lengths (altitude, distances) are in centimetres;                   *)
(*   - latitude and longitude are in units of 1/11 100 000 degree, so that *)
(*     the source's `dlat * 111000` metres is exactly dlat model units     *)
(*     (one unit of latitude is one centimetre on the ground);             *)
(*   - speed is in centimetres per second;                                 *)
(*   - battery is in hundredths of a percent (100.0 is 10000).             *)
(* Square roots are integer square roots and a step along the line to the  *)
(* target is truncated to the position quantum, so geometry is exact       *)
(* whenever the distance is a whole number of centimetres.                 *)
(***************************************************************************)
EXTENDS Integers, Sequences, FiniteSets, TLC

VARIABLES
    drone,      \* the DroneState singleton of src/drone.py
    prev,       \* history: the DroneState before the last operation
    lastOp,     \* history: the last operation executed on the vehicle
    result,     \* history: the "status" of the last handler's response
    goal,       \* history: the arguments of the last move_to that was stored
    nTicks,     \* number of simulate_drone iterations executed
    nCmds,      \* number of REST requests handled
    drains,     \* history: number of operations that were to take 0.01 off the battery
    seekDist,   \* history: distance to the target when the seek run began
    seekTicks,  \* history: ticks executed since the seek run began
    registry,               \* ids of the rows of the drones table
    websocket_connections,  \* the module-level list of src/drones.py
    open,       \* per fleet websocket: the client is still connected
    task,       \* per fleet websocket: the locals of its websocket_telemetry coroutine
    pass,       \* history, per coroutine: what its current round has done
    clock,      \* seconds elapsed
    recv,       \* history, per subscriber: mappings received in the current second
    polls,      \* history, per vehicle: status queries received in the current second
    cache,      \* per drone id: the current_* columns of its row of the drones table
    relay,      \* the relay requests under way, each a coroutine of a relay handler
    relayLast,  \* history: the relay request that was answered last
    subs,       \* per vehicle websocket: its websocket_telemetry coroutine of src/drone.py
    block_areas,  \* the rows of the block_areas table of src/main.py
    created,    \* history: the requests that created a row, with the id returned
    lastCreate, \* history: the last POST /api/block-area/ and its answer
    fetched     \* history: the last GET /api/block-area/{area_id} and its answer

vehicleVars == <<drone, prev, lastOp, result, goal, nTicks, nCmds, drains>>
seekVars == <<seekDist, seekTicks>>
relayVars == <<cache, relay, relayLast>>
telemetryVars == <<subs>>
geoVars == <<block_areas, created, lastCreate, fetched>>
fleetVars == <<registry, websocket_connections, open, task, pass, clock, recv, polls>>
controllerVars == <<fleetVars, relayVars, telemetryVars, geoVars>>
vars == <<drone, prev, lastOp, result, goal, nTicks, nCmds, drains, seekDist, seekTicks,
          registry, websocket_connections, open, task, pass, clock, recv, polls,
          cache, relay, relayLast, subs, block_areas, created, lastCreate, fetched>>

(***************************************************************************)
(* Bounds of the model.                                                    *)
(***************************************************************************)
MaxTicks == 4
MaxCmds == 4
MaxSeekTicks == 23
NumWs == 2
NumPollers == 1
NumDrones == 3
MaxClock == 1
NumRelays == 1
NumSubs == 2
MaxPushes == 2
MaxTelemetryTicks == 2
MaxAreas == 2
MaxRelayCmds == 3

(***************************************************************************)
(* Program constants, in model units.                                      *)
(***************************************************************************)
movement_speed == 500       \* 5.0 m/s
TicksPerSecond == 10        \* dt = 0.1 s
SnapDistance == 10          \* 0.1 m
DriftStep == 1110           \* 0.0001 degree
BatteryFull == 10000        \* 100.0 percent
DefaultAltitude == 1000     \* takeoff(altitude: float = 10.0)
LatMax == 999000000         \* 90 degrees
LonMax == 1998000000        \* 180 degrees

Abs(x) == IF x < 0 THEN -x ELSE x
Max(a, b) == IF a >= b THEN a ELSE b

RECURSIVE SqrtSearch(_, _, _)
SqrtSearch(n, lo, hi) ==
    IF lo >= hi THEN lo
    ELSE LET mid == (lo + hi + 1) \div 2
         IN  IF mid * mid <= n THEN SqrtSearch(n, mid, hi)
             ELSE SqrtSearch(n, lo, mid - 1)

\* x ** 0.5, rounded down
ISqrt(n) == SqrtSearch(n, 0, 46340)

\* (dlat*111000)**2 + (dlon*111000)**2 + dalt**2, in square centimetres
DistSq(dlat, dlon, dalt) == dlat * dlat + dlon * dlon + dalt * dalt

\* ((dlat*111000)**2 + (dlon*111000)**2 + dalt**2) ** 0.5
Distance(dlat, dlon, dalt) == ISqrt(DistSq(dlat, dlon, dalt))

\* DroneState.__init__
InitialDrone ==
    [ is_flying        |-> FALSE,
      latitude         |-> 0,
      longitude        |-> 0,
      altitude         |-> 0,
      speed            |-> 0,
      battery          |-> BatteryFull,
      moving_to_target |-> FALSE,
      target_latitude  |-> 0,
      target_longitude |-> 0,
      target_altitude  |-> 0 ]

\* mutant: the battery is floored at 0
update_position_floored(d, dlat, dlon, dalt) ==
    IF d.is_flying
    THEN [d EXCEPT !.latitude  = @ + dlat,
                   !.longitude = @ + dlon,
                   !.altitude  = @ + dalt,
                   !.speed     = Distance(dlat, dlon, dalt) * TicksPerSecond,
                   !.battery   = Max(@ - 1, 0)]
    ELSE d

\* DroneState.update_position
update_position(d, dlat, dlon, dalt) ==
    IF d.is_flying
    THEN [d EXCEPT !.latitude  = @ + dlat,
                   !.longitude = @ + dlon,
                   !.altitude  = @ + dalt,
                   !.speed     = Distance(dlat, dlon, dalt) * TicksPerSecond,
                   !.battery   = @ - 1]
    ELSE d

\* DroneState.start_move_to
start_move_to(d, lat, lon, alt) ==
    IF d.is_flying
    THEN [d EXCEPT !.target_latitude  = lat,
                   !.target_longitude = lon,
                   !.target_altitude  = alt,
                   !.moving_to_target = TRUE]
    ELSE d

\* mutant: the step is half of movement_speed * dt
step_distance_halved == movement_speed \div (2 * TicksPerSecond)

\* step_distance = self.movement_speed * dt
step_distance == movement_speed \div TicksPerSecond

\* mutant: step_ratio = step_distance / distance, without min(..., 1.0)
StepUnclamped(x, dsq) ==
    LET distance == Max(ISqrt(dsq), 1)
        mag == (Abs(x) * (movement_speed \div TicksPerSecond)) \div distance
    IN  IF x < 0 THEN -mag ELSE mag

\* x * step_ratio, where step_ratio = min(step_distance / max(distance, 0.0001), 1.0);
\* the product is truncated toward zero.  max(distance, 0.0001) is distance here:
\* the caller has distance >= 0.1 m.
StepOf(x, dsq) ==
    IF step_distance * step_distance >= dsq
    THEN x
    ELSE LET distance == Max(ISqrt(dsq), 1)
             mag == (Abs(x) * step_distance) \div distance
         IN  IF x < 0 THEN -mag ELSE mag

\* DroneState.update_movement
update_movement(d) ==
    IF ~d.is_flying \/ ~d.moving_to_target
    THEN d
    ELSE LET dlat == d.target_latitude - d.latitude
             dlon == d.target_longitude - d.longitude
             dalt == d.target_altitude - d.altitude
             dsq  == DistSq(dlat, dlon, dalt)
         IN  IF dsq < SnapDistance * SnapDistance
             THEN [d EXCEPT !.latitude  = d.target_latitude,
                            !.longitude = d.target_longitude,
                            !.altitude  = d.target_altitude,
                            !.moving_to_target = FALSE,
                            !.speed     = 0]
             ELSE [d EXCEPT !.latitude  = @ + StepOf(dlat, dsq),
                            !.longitude = @ + StepOf(dlon, dsq),
                            !.altitude  = @ + StepOf(dalt, dsq),
                            !.speed     = step_distance * TicksPerSecond,
                            !.battery   = @ - 1]

\* MoveRequest / MoveToRequest: Field(ge=-90, le=90), Field(ge=-180, le=180), Field(ge=0)
ValidRequest(lat, lon, alt) ==
    /\ -LatMax <= lat /\ lat <= LatMax
    /\ -LonMax <= lon /\ lon <= LonMax
    /\ alt >= 0

\* Request inputs the model draws from: <<latitude, longitude, altitude>>.
TakeoffAltitudes == {DefaultAltitude, -500}
MoveRequests == { <<300, 400, 0>>, <<-300, 0, 500>>, <<0, 0, -100>> }
MoveToRequests == { <<1000, 0, 1000>>, <<300, 400, 0>>, <<0, -100, -100>> }

\* what every REST handler of the vehicle records
Handled(op, res) ==
    /\ nCmds < MaxCmds
    /\ nCmds' = nCmds + 1
    /\ prev' = drone
    /\ lastOp' = op
    /\ result' = res
    /\ drains' = IF op = "move" /\ res # "invalid" /\ drone.is_flying
                 THEN drains + 1 ELSE drains

\* mutant: takeoff without the `if not drone.is_flying` guard
TakeoffUnguarded ==
    \E altitude \in TakeoffAltitudes :
        /\ drone' = [drone EXCEPT !.is_flying = TRUE, !.altitude = altitude]
        /\ Handled("takeoff", "success")
        /\ UNCHANGED <<goal, nTicks>>

\* takeoff(altitude)
TakeoffAt(altitude) ==
    /\ IF ~drone.is_flying
       THEN /\ drone' = [drone EXCEPT !.is_flying = TRUE, !.altitude = altitude]
            /\ Handled("takeoff", "success")
       ELSE /\ drone' = drone
            /\ Handled("takeoff", "error")
    /\ UNCHANGED <<goal, nTicks>>

\* POST /api/drone/takeoff
Takeoff == \E altitude \in TakeoffAltitudes : TakeoffAt(altitude)

\* mutant: land that does not clear moving_to_target
LandKeepsSeeking ==
    /\ IF drone.is_flying
       THEN /\ drone' = [drone EXCEPT !.is_flying = FALSE, !.altitude = 0, !.speed = 0]
            /\ Handled("land", "success")
       ELSE /\ drone' = drone
            /\ Handled("land", "error")
    /\ UNCHANGED <<goal, nTicks>>

\* mutant: land that does not reset the speed
LandKeepsSpeed ==
    /\ IF drone.is_flying
       THEN /\ drone' = [drone EXCEPT !.is_flying = FALSE, !.altitude = 0,
                                      !.moving_to_target = FALSE]
            /\ Handled("land", "success")
       ELSE /\ drone' = drone
            /\ Handled("land", "error")
    /\ UNCHANGED <<goal, nTicks>>

\* POST /api/drone/land
Land ==
    /\ IF drone.is_flying
       THEN /\ drone' = [drone EXCEPT !.is_flying = FALSE,
                                      !.altitude = 0,
                                      !.speed = 0,
                                      !.moving_to_target = FALSE]
            /\ Handled("land", "success")
       ELSE /\ drone' = drone
            /\ Handled("land", "error")
    /\ UNCHANGED <<goal, nTicks>>

\* mutant: move without the `if drone.is_flying` guard of the handler
MoveUnguarded ==
    \E m \in MoveRequests :
        /\ IF ~ValidRequest(m[1], m[2], m[3])
           THEN /\ drone' = drone
                /\ Handled("move", "invalid")
           ELSE /\ drone' = update_position(drone, m[1], m[2], m[3])
                /\ Handled("move", "success")
        /\ UNCHANGED <<goal, nTicks>>

\* mutant: the request model has no Field bounds
MoveOfUnvalidated(m) ==
    /\ IF drone.is_flying
       THEN /\ drone' = update_position(drone, m[1], m[2], m[3])
            /\ Handled("move", "success")
       ELSE /\ drone' = drone
            /\ Handled("move", "error")
    /\ UNCHANGED <<goal, nTicks>>

\* move(move): a request that fails validation is answered 422 before the handler runs
MoveOf(m) ==
    /\ IF ~ValidRequest(m[1], m[2], m[3])
       THEN /\ drone' = drone
            /\ Handled("move", "invalid")
       ELSE IF drone.is_flying
       THEN /\ drone' = update_position(drone, m[1], m[2], m[3])
            /\ Handled("move", "success")
       ELSE /\ drone' = drone
            /\ Handled("move", "error")
    /\ UNCHANGED <<goal, nTicks>>

\* POST /api/drone/move
Move == \E m \in MoveRequests : MoveOf(m)

\* move_to(move_to)
MoveToOf(m) ==
    IF ~ValidRequest(m[1], m[2], m[3])
    THEN /\ drone' = drone
         /\ Handled("move_to", "invalid")
         /\ UNCHANGED <<goal, nTicks>>
    ELSE IF drone.is_flying
    THEN /\ drone' = start_move_to(drone, m[1], m[2], m[3])
         /\ goal' = {m}
         /\ Handled("move_to", "success")
         /\ UNCHANGED nTicks
    ELSE /\ drone' = drone
         /\ Handled("move_to", "error")
         /\ UNCHANGED <<goal, nTicks>>

\* POST /api/drone/move_to
MoveTo == \E m \in MoveToRequests : MoveToOf(m)

\* mutant: an idle airborne vehicle holds its position
simulate_drone_holds(d) ==
    IF d.is_flying /\ d.moving_to_target THEN update_movement(d) ELSE d

\* one iteration of simulate_drone
simulate_drone(d) ==
    IF d.is_flying
    THEN IF d.moving_to_target
         THEN update_movement(d)
         ELSE update_position(d, DriftStep, DriftStep, 0)
    ELSE d

\* the iteration is a drift step, or a seek step that does not snap
TickMoves(d) ==
    /\ d.is_flying
    /\ \/ ~d.moving_to_target
       \/ DistSq(d.target_latitude - d.latitude,
                 d.target_longitude - d.longitude,
                 d.target_altitude - d.altitude) >= SnapDistance * SnapDistance

Tick ==
    /\ drone' = simulate_drone(drone)
    /\ prev' = drone
    /\ lastOp' = "tick"
    /\ nTicks' = nTicks + 1
    /\ drains' = IF TickMoves(drone) THEN drains + 1 ELSE drains
    /\ UNCHANGED <<result, goal, nCmds>>

(***************************************************************************)
(* The fleet telemetry endpoint of src/drones.py.  Every connection runs   *)
(* its own websocket_telemetry coroutine; all of them share the list       *)
(* websocket_connections.  A coroutine runs without interruption between   *)
(* two awaits, so each action below is the code from one await to the next.*)
(***************************************************************************)
Ws == 1..NumWs
DroneIds == 1..NumDrones

\* outcomes of client.get + raise_for_status: a response, or an httpx.HTTPError
\* (httpx.RequestError from the transport, httpx.HTTPStatusError from the status)
QueryOutcomes == {"ok", "RequestError", "HTTPStatusError"}

SeqToSet(q) == {q[i] : i \in DOMAIN q}

\* db.query(Drone).all(): the rows, in id order
RECURSIVE Ascending(_)
Ascending(S) ==
    IF S = {} THEN <<>>
    ELSE LET m == CHOOSE x \in S : \A y \in S : x <= y
         IN  <<m>> \o Ascending(S \ {m})

\* list.remove(x), for x in the list: drops the first occurrence
Remove(c, x) ==
    LET i == CHOOSE j \in DOMAIN c : c[j] = x /\ \A l \in 1..(j - 1) : c[l] # x
    IN  SubSeq(c, 1, i - 1) \o SubSeq(c, i + 1, Len(c))

\* a row as register_drone inserts it: current_status has its default, the
\* position columns are NULL (<<>>; a stored number x is <<x>>)
NewRow ==
    [current_status |-> "stopped", current_lat |-> <<>>, current_lng |-> <<>>,
     current_altitude |-> <<>>]

Relays == 1..NumRelays
IdleRelay == [pc |-> "idle", op |-> "none", id |-> 0, req |-> <<>>, vres |-> "none"]
NoRelay ==
    [outcome |-> "none", op |-> "none", id |-> 0, req |-> <<>>, vres |-> "none",
     called |-> FALSE, cacheWas |-> [v \in DroneIds |-> NewRow], registryWas |-> {},
     is_flying |-> FALSE]

IdleTask == [pc |-> "idle", drones |-> <<>>, k |-> 0, data |-> <<>>, it |-> 0, cur |-> 0]
NoPass == [registered |-> {}, failedQ |-> {}, start |-> {}, delivered |-> {}, failedPush |-> {},
           orphan |-> FALSE]

FleetInit ==
    /\ registry = {}
    /\ websocket_connections = <<>>
    /\ open = [w \in Ws |-> FALSE]
    /\ task = [w \in Ws |-> IdleTask]
    /\ pass = [w \in Ws |-> NoPass]
    /\ clock = 0
    /\ recv = [w \in Ws |-> 0]
    /\ polls = [v \in DroneIds |-> 0]
    /\ cache = [v \in DroneIds |-> NewRow]
    /\ relay = [r \in Relays |-> IdleRelay]
    /\ relayLast = NoRelay

\* `for ws in websocket_connections`: the list iterator hands out the element at
\* its index in the list as it is now, or ends the loop, which leads to
\* `await asyncio.sleep(1)`
Iterate(t, c) ==
    IF t.it < Len(c)
    THEN [t EXCEPT !.pc = "sending", !.cur = c[t.it + 1], !.it = t.it + 1]
    ELSE [t EXCEPT !.pc = "sleep", !.cur = 0]

\* the broadcast loop is entered over the list c
StartBroadcast(t, c) == Iterate([t EXCEPT !.it = 0], c)

\* top of `while True`: telemetry_data = {}; drones = db.query(Drone).all(); then
\* the first status query is awaited, or with no rows the broadcast begins
BeginRound(w, c) ==
    LET t == [task[w] EXCEPT !.drones = Ascending(registry), !.k = 0, !.data = <<>>]
    IN  /\ task' = [task EXCEPT ![w] = IF registry = {} THEN StartBroadcast(t, c)
                                       ELSE [t EXCEPT !.pc = "poll"]]
        /\ pass' = [pass EXCEPT ![w] = [NoPass EXCEPT !.registered = registry,
                                                      !.start = IF registry = {}
                                                                THEN SeqToSet(c) ELSE {},
                                                      !.orphan = w \notin SeqToSet(c)]]

\* POST /api/drones/register: a pure insert, the id is generated
register_drone ==
    /\ Cardinality(registry) < NumDrones
    /\ registry' = registry \cup {Cardinality(registry) + 1}
    /\ UNCHANGED <<websocket_connections, open, task, pass, clock, recv, polls>>

\* a client connects: accept, append to the list, open the session, first round
\* (websockets are numbered in the order in which they connect)
Connect(w) ==
    /\ task[w].pc = "idle"
    /\ \A u \in 1..(w - 1) : task[u].pc # "idle"
    /\ open' = [open EXCEPT ![w] = TRUE]
    /\ websocket_connections' = Append(websocket_connections, w)
    /\ BeginRound(w, Append(websocket_connections, w))
    /\ UNCHANGED <<registry, clock, recv, polls>>

\* a client goes away; the server notices only when a send to it fails
Disconnect(w) ==
    /\ open[w]
    /\ open' = [open EXCEPT ![w] = FALSE]
    /\ UNCHANGED <<registry, websocket_connections, task, pass, clock, recv, polls>>

\* telemetry_data[drone.id] after one status query: the telemetry entry, or the
\* error marker of `except httpx.HTTPError`
Entry(outcome) == IF outcome = "ok" THEN "telemetry" ELSE "error"

\* mutant: a failed query leaves no entry (`except httpx.HTTPError: pass`)
AfterQueryDropsFailure(t, v, outcome) ==
    IF outcome = "ok"
    THEN [t EXCEPT !.k = @ + 1, !.data = (v :> "telemetry") @@ @]
    ELSE [t EXCEPT !.k = @ + 1]

AfterQuery(t, v, outcome) == [t EXCEPT !.k = @ + 1, !.data = (v :> Entry(outcome)) @@ @]

\* one status query of the `for drone in drones` loop completes
Poll(w) ==
    /\ task[w].pc = "poll"
    /\ \E outcome \in QueryOutcomes :
        LET v == task[w].drones[task[w].k + 1]
            t == AfterQuery(task[w], v, outcome)
            last == t.k = Len(t.drones)
        IN  /\ task' = [task EXCEPT ![w] = IF last THEN StartBroadcast(t, websocket_connections)
                                           ELSE t]
            /\ pass' = [pass EXCEPT ![w].failedQ = IF outcome = "ok" THEN @ ELSE @ \cup {v},
                                    ![w].start = IF last THEN SeqToSet(websocket_connections)
                                                 ELSE @]
            /\ polls' = [polls EXCEPT ![v] = @ + 1]
    /\ UNCHANGED <<registry, websocket_connections, open, clock, recv>>

\* `await ws.send_json(telemetry_data)` returns: the subscriber has the mapping
SendOk(w) ==
    /\ task[w].pc = "sending"
    /\ open[task[w].cur]
    /\ recv' = [recv EXCEPT ![task[w].cur] = @ + 1]
    /\ pass' = [pass EXCEPT ![w].delivered = @ \cup {task[w].cur}]
    /\ task' = [task EXCEPT ![w] = Iterate(@, websocket_connections)]
    /\ UNCHANGED <<registry, websocket_connections, open, clock, polls>>

\* `await ws.send_json(telemetry_data)` raises: `except: websocket_connections.remove(ws)`
SendFails(w) ==
    /\ task[w].pc = "sending"
    /\ ~open[task[w].cur]
    /\ task[w].cur \in SeqToSet(websocket_connections)
    /\ websocket_connections' = Remove(websocket_connections, task[w].cur)
    /\ pass' = [pass EXCEPT ![w].failedPush = @ \cup {task[w].cur}]
    /\ task' = [task EXCEPT ![w] = Iterate(@, Remove(websocket_connections, task[w].cur))]
    /\ UNCHANGED <<registry, open, clock, recv, polls>>

\* the same, when another coroutine has removed ws meanwhile: remove(ws) raises
\* ValueError, which leaves both loops for `except Exception`: the coroutine
\* removes and closes its own websocket, or, when that is not in the list
\* either, ends with the second ValueError
SendFailsRemoved(w) ==
    /\ task[w].pc = "sending"
    /\ ~open[task[w].cur]
    /\ task[w].cur \notin SeqToSet(websocket_connections)
    /\ pass' = [pass EXCEPT ![w].failedPush = @ \cup {task[w].cur}]
    /\ IF w \in SeqToSet(websocket_connections)
       THEN /\ websocket_connections' = Remove(websocket_connections, w)
            /\ open' = [open EXCEPT ![w] = FALSE]
            /\ task' = [task EXCEPT ![w].pc = "closed"]
       ELSE /\ task' = [task EXCEPT ![w].pc = "crashed"]
            /\ UNCHANGED <<websocket_connections, open>>
    /\ UNCHANGED <<registry, clock, recv, polls>>

\* one second passes: every asyncio.sleep(1) under way is over
Second ==
    /\ clock < MaxClock
    /\ clock' = clock + 1
    /\ task' = [w \in Ws |-> IF task[w].pc = "sleep" THEN [task[w] EXCEPT !.pc = "wake"]
                             ELSE task[w]]
    /\ recv' = [w \in Ws |-> 0]
    /\ polls' = [v \in DroneIds |-> 0]
    /\ UNCHANGED <<registry, websocket_connections, open, pass>>

\* asyncio.sleep(1) returns: the next round
Wake(w) ==
    /\ task[w].pc = "wake"
    /\ BeginRound(w, websocket_connections)
    /\ UNCHANGED <<registry, websocket_connections, open, clock, recv, polls>>

(***************************************************************************)
(* The block areas of src/main.py.  Coordinates and radius are in          *)
(* thousandths (of a degree, of the radius unit).  A uuid is a sequence of *)
(* hexadecimal digits; the table and the handlers convert between the uuid *)
(* and its text.                                                           *)
(***************************************************************************)
AreaLatMax == 90000         \* 90
AreaLonMax == 180000        \* 180

HexLower == <<"0", "1", "2", "3", "4", "5", "6", "7", "8", "9", "a", "b", "c", "d", "e", "f">>
HexUpper == <<"0", "1", "2", "3", "4", "5", "6", "7", "8", "9", "A", "B", "C", "D", "E", "F">>

\* the values uuid.uuid4() hands out (digits 0..15)
Uuids == { <<1, 10>>, <<11, 2>>, <<15, 15>>, <<0, 7>> }

\* str(uuid): lower-case digits, groups joined by a hyphen
UuidStr(u) == <<HexLower[u[1] + 1], "-", HexLower[u[2] + 1]>>

IsHex(c) == \E i \in DOMAIN HexLower : c = HexLower[i] \/ c = HexUpper[i]
HexValue(c) == (CHOOSE i \in DOMAIN HexLower : c = HexLower[i] \/ c = HexUpper[i]) - 1

RECURSIVE WithoutHyphens(_)
WithoutHyphens(t) ==
    IF t = <<>> THEN <<>>
    ELSE IF Head(t) = "-" THEN WithoutHyphens(Tail(t))
    ELSE <<Head(t)>> \o WithoutHyphens(Tail(t))

\* uuid.UUID(text): hyphens are dropped, then the digits must be as many as a
\* uuid has and hexadecimal, in either case; otherwise ValueError
UuidParse(t) ==
    LET h == WithoutHyphens(t)
    IN  IF Len(h) = 2 /\ \A i \in DOMAIN h : IsHex(h[i])
        THEN <<HexValue(h[1]), HexValue(h[2])>>
        ELSE <<>>

\* mutant: a column that keeps whole numbers only (Column(Integer))
FloatColumnWhole(x) == (x \div 1000) * 1000

\* Column(Float): double precision, which holds every float the request can carry
FloatColumn(x) == x

\* BlockArea request bodies: <<name, latitude, longitude, radius>>
AreaRequests ==
    { <<"depot", 51500, -120, 250>>, <<"tower", -90000, 180000, 1>>,
      <<"depot", 91000, 0, 250>>, <<"depot", 0, -180001, 250>>,
      <<"depot", 0, 0, 0>>, <<"depot", 0, 0, -250>> }

\* the area_id path parameters: texts of uuids, one in upper case, one that is no uuid
AreaIds == {UuidStr(u) : u \in Uuids} \cup { <<"B", "-", "2">>, <<"b", "2">>, <<"x", "-", "y">> }

NoAnswer ==
    [status |-> 0, query |-> <<>>, body |-> <<>>, areasWas |-> {}, createdWas |-> {}]

GeoInit ==
    /\ block_areas = {}
    /\ created = {}
    /\ lastCreate = NoAnswer
    /\ fetched = NoAnswer

\* BlockArea(id=str(area.id), name=..., longitude=..., latitude=..., radius=...)
AreaBody(row) ==
    [id |-> UuidStr(row.id), name |-> row.name, latitude |-> row.latitude,
     longitude |-> row.longitude, radius |-> row.radius]

\* POST /api/block-area/
register_block_area(area) ==
    IF \/ ~(-AreaLatMax <= area[2] /\ area[2] <= AreaLatMax)
       \/ ~(-AreaLonMax <= area[3] /\ area[3] <= AreaLonMax)
       \/ area[4] <= 0
    THEN /\ lastCreate' = [status |-> 400, query |-> area, body |-> <<>>,
                           areasWas |-> block_areas, createdWas |-> created]
         /\ UNCHANGED <<block_areas, created, fetched>>
    ELSE /\ Cardinality(block_areas) < MaxAreas
         /\ \E u \in Uuids \ {row.id : row \in block_areas} :
              LET db_area == [id |-> u, name |-> area[1],
                              latitude |-> FloatColumn(area[2]),
                              longitude |-> FloatColumn(area[3]),
                              radius |-> FloatColumn(area[4])]
              IN  /\ block_areas' = block_areas \cup {db_area}
                  /\ lastCreate' = [status |-> 200, query |-> area, body |-> AreaBody(db_area),
                                    areasWas |-> block_areas, createdWas |-> created]
                  /\ created' = created \cup {[id |-> UuidStr(u), name |-> area[1],
                                               latitude |-> area[2], longitude |-> area[3],
                                               radius |-> area[4]]}
         /\ UNCHANGED fetched

\* GET /api/block-area/{area_id}
get_block_area(area_id) ==
    /\ LET u == UuidParse(area_id)
           found == {row \in block_areas : row.id = u}
           answer(status, body) ==
               [status |-> status, query |-> area_id, body |-> body,
                areasWas |-> block_areas, createdWas |-> created]
       IN  fetched' =
               IF u = <<>> THEN answer(400, <<>>)
               ELSE IF found = {} THEN answer(404, <<>>)
               ELSE answer(200, AreaBody(CHOOSE row \in found : TRUE))
    /\ UNCHANGED <<block_areas, created, lastCreate>>

\* a vehicle websocket before its client connects
IdleSub ==
    [pc |-> "idle", client |-> FALSE, closed |-> FALSE,
     pushed |-> 0, attempts |-> 0, failed |-> FALSE, failedAt |-> 0]

VehicleInit ==
    /\ subs = [s \in 1..NumSubs |-> IdleSub]
    /\ drone = InitialDrone
    /\ prev = InitialDrone
    /\ lastOp = "init"
    /\ result = "none"
    /\ goal = {}
    /\ nTicks = 0
    /\ nCmds = 0
    /\ drains = 0
    /\ seekDist = 0
    /\ seekTicks = 0

Init == VehicleInit /\ FleetInit /\ GeoInit

VehicleTick ==
    /\ nTicks < MaxTicks
    /\ Tick
    /\ UNCHANGED seekVars

Next ==
    \/ Takeoff /\ UNCHANGED seekVars /\ UNCHANGED controllerVars
    \/ Land /\ UNCHANGED seekVars /\ UNCHANGED controllerVars
    \/ Move /\ UNCHANGED seekVars /\ UNCHANGED controllerVars
    \/ MoveTo /\ UNCHANGED seekVars /\ UNCHANGED controllerVars
    \/ VehicleTick /\ UNCHANGED controllerVars

Spec == Init /\ [][Next]_vars

(***************************************************************************)
(* The vehicle late in a long flight as well: it took off to the default   *)
(* altitude and has answered move(0, 0, 0) until 0.02 percent of battery   *)
(* were left.  nCmds and nTicks count from the start of the behaviour.     *)
(***************************************************************************)
LowBattery == 2

LateDrone ==
    [InitialDrone EXCEPT !.is_flying = TRUE, !.altitude = DefaultAltitude,
                         !.battery = LowBattery]

BatteryInit ==
    \/ Init
    \/ /\ drone = LateDrone
       /\ prev = [LateDrone EXCEPT !.battery = LowBattery + 1]
       /\ lastOp = "move"
       /\ result = "success"
       /\ goal = {}
       /\ nTicks = 0
       /\ nCmds = 0
       /\ drains = BatteryFull - LowBattery
       /\ subs = [s \in 1..NumSubs |-> IdleSub]
       /\ seekDist = 0
       /\ seekTicks = 0
       /\ FleetInit
       /\ GeoInit

SpecBattery == BatteryInit /\ [][Next]_vars

(***************************************************************************)
(* The fleet controller on its own: registrations, subscribers coming and  *)
(* going, and the telemetry coroutines.                                    *)
(***************************************************************************)
otherVars == <<vehicleVars, seekVars, relayVars, telemetryVars, geoVars>>

FleetNext ==
    \/ register_drone /\ UNCHANGED otherVars
    \/ \E w \in Ws : Connect(w) /\ UNCHANGED otherVars
    \/ \E w \in Ws : Disconnect(w) /\ UNCHANGED otherVars
    \/ \E w \in Ws : Poll(w) /\ UNCHANGED otherVars
    \/ \E w \in Ws : SendOk(w) /\ UNCHANGED otherVars
    \/ \E w \in Ws : SendFails(w) /\ UNCHANGED otherVars
    \/ \E w \in Ws : SendFailsRemoved(w) /\ UNCHANGED otherVars
    \/ Second /\ UNCHANGED otherVars
    \/ \E w \in Ws : Wake(w) /\ UNCHANGED otherVars

SpecFleet == Init /\ [][FleetNext]_vars

(***************************************************************************)
(* Polling rounds on their own: vehicles are registered, subscribers that  *)
(* stay connected are served, status queries succeed or fail.              *)
(***************************************************************************)
Pollers == 1..NumPollers

PollNext ==
    \/ register_drone /\ UNCHANGED otherVars
    \/ \E w \in Pollers : Connect(w) /\ UNCHANGED otherVars
    \/ \E w \in Pollers : Poll(w) /\ UNCHANGED otherVars
    \/ \E w \in Pollers : SendOk(w) /\ UNCHANGED otherVars
    \/ Second /\ UNCHANGED otherVars
    \/ \E w \in Pollers : Wake(w) /\ UNCHANGED otherVars

SpecPoll == Init /\ [][PollNext]_vars

(***************************************************************************)
(* The relay handlers of src/drones.py (takeoff_drone, land_drone,         *)
(* move_drone, move_to_drone, get_drone_status) in front of the vehicle.   *)
(* The one vehicle modelled is registered first; a request names its id or *)
(* an id that has no row.                                                  *)
(* A relay handler awaits once, in send_to_drone: the code up to the       *)
(* vehicle's answer is one action, the code after it another.              *)
(***************************************************************************)
RelayOps == {"takeoff", "land", "move", "move_to", "status"}
RelayTargets == {1, NumDrones}

\* the request bodies of the relay: its MoveRequest has no Field bounds
RelayRequests(op) ==
    IF op = "move" THEN MoveRequests
    ELSE IF op = "move_to" THEN MoveToRequests
    ELSE {<<>>}

\* what the caller of the relay got
Answered(outcome, op, id, req, vres, called) ==
    [outcome |-> outcome, op |-> op, id |-> id, req |-> req, vres |-> vres,
     called |-> called, cacheWas |-> cache, registryWas |-> registry,
     is_flying |-> drone.is_flying]

\* takeoff_drone, after send_to_drone
takeoff_drone(c, id) == [c EXCEPT ![id].current_status = "flying"]

\* land_drone, after send_to_drone
land_drone(c, id) == [c EXCEPT ![id].current_status = "stopped"]

\* move_drone and move_to_drone, after send_to_drone
move_drone(c, id, move) ==
    [c EXCEPT ![id].current_lat = <<move[1]>>,
              ![id].current_lng = <<move[2]>>,
              ![id].current_altitude = <<move[3]>>]

\* db.query(Drone).filter(Drone.id == drone_id).update({...}); db.commit()
db_update(c, op, id, req) ==
    IF id \notin registry THEN c
    ELSE IF op = "takeoff" THEN takeoff_drone(c, id)
    ELSE IF op = "land" THEN land_drone(c, id)
    ELSE IF op \in {"move", "move_to"} THEN move_drone(c, id, req)
    ELSE c

\* mutant: the request is sent although no row has the id
RelayNotFoundAfterCall(op, id) ==
    /\ id \notin registry
    /\ relayLast' = Answered("NotFound", op, id, <<>>, "none", TRUE)
    /\ UNCHANGED <<cache, relay>>

\* get_drone_url raises HTTPException(404) before the client is created
RelayNotFound(op, id) ==
    /\ id \notin registry
    /\ relayLast' = Answered("NotFound", op, id, <<>>, "none", FALSE)
    /\ UNCHANGED <<cache, relay>>

\* mutant: the row is updated before send_to_drone is awaited
RelayFailsAfterCommit(op, id, outcome) ==
    /\ id \in registry
    /\ relayLast' = Answered(outcome, op, id, <<>>, "none", TRUE)
    /\ \E req \in RelayRequests(op) : cache' = db_update(cache, op, id, req)
    /\ UNCHANGED relay

\* send_to_drone: the request does not get through (httpx.RequestError) or the
\* server at the address answers with an error status (httpx.HTTPStatusError);
\* both become an HTTPException and the handler ends there
RelayFails(op, id, outcome) ==
    /\ id \in registry
    /\ relayLast' = Answered(outcome, op, id, <<>>, "none", TRUE)
    /\ UNCHANGED <<cache, relay>>

\* the vehicle's handler for a relayed request
VehicleHandles(op, req) ==
    \/ op = "takeoff" /\ TakeoffAt(DefaultAltitude)
    \/ op = "land" /\ Land
    \/ op = "move" /\ MoveOf(req)
    \/ op = "move_to" /\ MoveToOf(req)

\* send_to_drone: the request reaches the vehicle, which handles it.  A 422 is
\* an httpx.HTTPStatusError at raise_for_status; any other answer is awaited by
\* the coroutine r (the lowest one that is free).
RelayDelivered(r, op, id, req) ==
    /\ id \in registry
    /\ relay[r].pc = "idle"
    /\ \A q \in 1..(r - 1) : relay[q].pc # "idle"
    /\ op # "status"
    /\ nCmds < MaxRelayCmds
    /\ VehicleHandles(op, req)
    /\ IF result' = "invalid"
       THEN /\ relayLast' = Answered("HTTPStatusError", op, id, req, "invalid", TRUE)
            /\ UNCHANGED relay
       ELSE /\ relay' = [relay EXCEPT ![r] = [pc |-> "awaiting", op |-> op, id |-> id,
                                             req |-> req, vres |-> result']]
            /\ UNCHANGED relayLast
    /\ UNCHANGED cache

\* the answer is there: result = response.json(), then the handler's update of
\* the row, commit and return
RelayReturns(r) ==
    /\ relay[r].pc = "awaiting"
    /\ cache' = db_update(cache, relay[r].op, relay[r].id, relay[r].req)
    /\ relayLast' = [Answered("returned", relay[r].op, relay[r].id, relay[r].req,
                              relay[r].vres, TRUE)
                     EXCEPT !.is_flying = drone.is_flying]
    /\ relay' = [relay EXCEPT ![r] = IdleRelay]

\* get_drone_status: the vehicle's get_status changes nothing, nor does the relay
RelayStatus(id) ==
    /\ id \in registry
    /\ relayLast' = Answered("returned", "status", id, <<>>, "status", TRUE)
    /\ UNCHANGED <<cache, relay>>

relayRest == <<fleetVars, telemetryVars, geoVars>>

RelayNext ==
    \/ /\ registry = {}
       /\ register_drone
       /\ UNCHANGED otherVars
    \/ \E op \in RelayOps, id \in RelayTargets :
           RelayNotFound(op, id) /\ UNCHANGED <<vehicleVars, seekVars, relayRest>>
    \/ \E op \in RelayOps, id \in RelayTargets, outcome \in {"RequestError", "HTTPStatusError"} :
           RelayFails(op, id, outcome) /\ UNCHANGED <<vehicleVars, seekVars, relayRest>>
    \/ \E r \in Relays, op \in RelayOps, id \in RelayTargets :
           \E req \in RelayRequests(op) :
               RelayDelivered(r, op, id, req) /\ UNCHANGED <<seekVars, relayRest>>
    \/ \E r \in Relays : RelayReturns(r) /\ UNCHANGED <<vehicleVars, seekVars, relayRest>>
    \/ \E id \in RelayTargets : RelayStatus(id) /\ UNCHANGED <<vehicleVars, seekVars, relayRest>>
    \/ nCmds < MaxRelayCmds /\ Move /\ UNCHANGED seekVars /\ UNCHANGED controllerVars
    \/ nCmds < MaxRelayCmds /\ MoveTo /\ UNCHANGED seekVars /\ UNCHANGED controllerVars

SpecRelay == Init /\ [][RelayNext]_vars

(***************************************************************************)
(* The telemetry endpoint of the vehicle (src/drone.py).  Every connection *)
(* runs its own websocket_telemetry coroutine next to simulate_drone, on   *)
(* one event loop; an action is the code between two awaits.               *)
(***************************************************************************)
Subs == 1..NumSubs

\* the telemetry dict is built (a copy of the DroneState's fields, which the
\* model does not keep) and send_json is awaited
BuildTelemetry(t) == [t EXCEPT !.pc = "send", !.attempts = @ + 1]

\* a client connects: accept, then the first pass of `while True`
SubConnect(s) ==
    /\ subs[s].pc = "idle"
    /\ \A u \in 1..(s - 1) : subs[u].pc # "idle"
    /\ subs' = [subs EXCEPT ![s] = BuildTelemetry([@ EXCEPT !.client = TRUE])]

\* a client goes away; the coroutine notices when a send fails
SubDisconnect(s) ==
    /\ subs[s].pc \in {"send", "sleep"}
    /\ subs[s].client
    /\ subs' = [subs EXCEPT ![s].client = FALSE]

\* `await websocket.send_json(telemetry)` returns; asyncio.sleep(0.1) is awaited
SubPushOk(s) ==
    /\ subs[s].pc = "send"
    /\ subs[s].client
    /\ subs[s].pushed < MaxPushes
    /\ subs' = [subs EXCEPT ![s].pc = "sleep", ![s].pushed = @ + 1]

\* mutant: the exception is swallowed inside the loop
SubPushFailsKeepsGoing(s) ==
    /\ subs[s].pc = "send"
    /\ ~subs[s].client
    /\ subs' = [subs EXCEPT ![s].pc = "sleep", ![s].failed = TRUE,
                            ![s].failedAt = subs[s].attempts]

\* `await websocket.send_json(telemetry)` raises: `except Exception` prints, the
\* loop is left, `finally: await websocket.close()`, the coroutine ends
SubPushFails(s) ==
    /\ subs[s].pc = "send"
    /\ ~subs[s].client
    /\ subs' = [subs EXCEPT ![s].pc = "closed", ![s].closed = TRUE, ![s].failed = TRUE,
                            ![s].failedAt = subs[s].attempts]

\* asyncio.sleep(0.1) returns: the next pass
SubWake(s) ==
    /\ subs[s].pc = "sleep"
    /\ subs' = [subs EXCEPT ![s] = BuildTelemetry(@)]

telemetryRest == <<vehicleVars, seekVars, fleetVars, relayVars, geoVars>>

\* the vehicle has taken off when the subscribers come
TelemetryInit ==
    /\ drone = [InitialDrone EXCEPT !.is_flying = TRUE, !.altitude = DefaultAltitude]
    /\ prev = InitialDrone
    /\ lastOp = "takeoff"
    /\ result = "success"
    /\ goal = {}
    /\ nTicks = 0
    /\ nCmds = 1
    /\ drains = 0
    /\ subs = [s \in 1..NumSubs |-> IdleSub]
    /\ seekDist = 0
    /\ seekTicks = 0
    /\ FleetInit
    /\ GeoInit

TelemetryTick ==
    /\ nTicks < MaxTelemetryTicks
    /\ Tick
    /\ UNCHANGED <<seekVars, controllerVars>>

\* what the coroutine of s does when the event loop resumes it
SubStep(s) == SubPushOk(s) \/ SubPushFails(s) \/ SubWake(s)

TelemetryNext ==
    \/ \E s \in Subs : SubConnect(s) /\ UNCHANGED telemetryRest
    \/ \E s \in Subs : SubDisconnect(s) /\ UNCHANGED telemetryRest
    \/ \E s \in Subs : SubPushOk(s) /\ UNCHANGED telemetryRest
    \/ \E s \in Subs : SubPushFails(s) /\ UNCHANGED telemetryRest
    \/ \E s \in Subs : SubWake(s) /\ UNCHANGED telemetryRest
    \/ TelemetryTick

SpecTelemetry == TelemetryInit /\ [][TelemetryNext]_vars

\* the event loop resumes a coroutine that is ready
TelemetryRuns ==
    \/ \E s \in Subs : SubStep(s) /\ UNCHANGED telemetryRest
    \/ TelemetryTick

\* The event loop does not stop while a coroutine is ready: a send that is under
\* way completes or fails, a sleep that is over returns.
SpecTelemetryFair == SpecTelemetry /\ WF_vars(TelemetryRuns)

(***************************************************************************)
(* The block area service on its own.                                      *)
(***************************************************************************)
geoRest == <<vehicleVars, seekVars, fleetVars, relayVars, telemetryVars>>

GeoNext ==
    \/ \E area \in AreaRequests : register_block_area(area) /\ UNCHANGED geoRest
    \/ \E area_id \in AreaIds : get_block_area(area_id) /\ UNCHANGED geoRest

SpecGeo == Init /\ [][GeoNext]_vars

(***************************************************************************)
(* A seek run: the vehicle has taken off to the default altitude and has   *)
(* accepted move_to(T); from then on only simulate_drone runs.             *)
(***************************************************************************)
SeekTargets ==
    { <<1000, 0, 1000>>, <<955, 0, 1000>>, <<960, 0, 1000>>, <<0, -45, 1000>>,
      <<300, 400, 1000>>, <<-600, 0, 200>>, <<0, 0, 0>>, <<0, 0, 1005>> }

SeekStart(t) ==
    start_move_to([InitialDrone EXCEPT !.is_flying = TRUE, !.altitude = DefaultAltitude],
                  t[1], t[2], t[3])

ToTargetSq(d) ==
    DistSq(d.target_latitude - d.latitude,
           d.target_longitude - d.longitude,
           d.target_altitude - d.altitude)

ToTarget(d) == ISqrt(ToTargetSq(d))

AtTarget(d) ==
    /\ d.latitude = d.target_latitude
    /\ d.longitude = d.target_longitude
    /\ d.altitude = d.target_altitude

SeekInit ==
    \E t \in SeekTargets :
        /\ drone = SeekStart(t)
        /\ prev = [InitialDrone EXCEPT !.is_flying = TRUE, !.altitude = DefaultAltitude]
        /\ lastOp = "move_to"
        /\ result = "success"
        /\ goal = {t}
        /\ nTicks = 0
        /\ nCmds = 2
        /\ drains = 0
        /\ subs = [s \in 1..NumSubs |-> IdleSub]
        /\ seekDist = ToTarget(SeekStart(t))
        /\ seekTicks = 0
        /\ FleetInit
        /\ GeoInit

SeekTick ==
    /\ seekTicks < MaxSeekTicks
    /\ Tick
    /\ seekTicks' = seekTicks + 1
    /\ UNCHANGED seekDist

SeekNext == SeekTick /\ UNCHANGED controllerVars

SpecSeek == SeekInit /\ [][SeekNext]_vars

(***************************************************************************)
(* Claims                                                                  *)
(***************************************************************************)
Seeking(d) == d.is_flying /\ d.moving_to_target

CeilDiv(a, b) == (a + b - 1) \div b

\* ceil(d / (cruiseSpeed * 0.1)) for the distance at the start of the seek run
TicksToCover == CeilDiv(seekDist * TicksPerSecond, movement_speed)

\* the last operation was the tick that snapped the vehicle onto its target
JustSnapped == lastOp = "tick" /\ Seeking(prev) /\ ~drone.moving_to_target

\* C1: whenever moving_to_target is true the vehicle is flying and its target
\* fields hold the arguments of the last move_to call that was stored.
C1_SeekingImpliesFlyingAndGoal ==
    drone.moving_to_target =>
        /\ drone.is_flying
        /\ goal = { <<drone.target_latitude, drone.target_longitude, drone.target_altitude>> }

C1_Witness ==
    /\ lastOp = "tick"
    /\ prev.moving_to_target
    /\ drone.moving_to_target
    /\ nCmds >= 3

\* C2 as stated: in a seek run that began at distance d >= 0.1 m, after
\* ceil(d / (cruiseSpeed * 0.1)) ticks the vehicle has snapped (Seeking cleared,
\* and the tick that cleared it left the vehicle exactly on the target at speed 0).
C2_SnapWithinCeil ==
    seekDist >= SnapDistance =>
        /\ seekTicks >= TicksToCover => ~drone.moving_to_target
        /\ JustSnapped => AtTarget(drone) /\ drone.speed = 0

\* C2 amended: the same within ceil(d / (cruiseSpeed * 0.1)) + 1 ticks.
C2_SnapWithinCeilPlusOne ==
    seekDist >= SnapDistance =>
        /\ seekTicks >= TicksToCover + 1 => ~drone.moving_to_target
        /\ JustSnapped => AtTarget(drone) /\ drone.speed = 0

C2_Witness ==
    /\ seekDist >= SnapDistance
    /\ seekTicks = TicksToCover + 1
    /\ JustSnapped
    /\ AtTarget(drone)

\* C3: a tick executed while Seeking at distance d >= 0.1 m leaves the vehicle at
\* distance max(d - cruiseSpeed*tickDuration, 0), which is strictly less than d,
\* and the speed is >= 0 after every tick.
C3_TickApproachesWithoutOvershoot ==
    lastOp = "tick" =>
        /\ drone.speed >= 0
        /\ (Seeking(prev) /\ ToTargetSq(prev) >= SnapDistance * SnapDistance) =>
               /\ ToTargetSq(drone) < ToTargetSq(prev)
               /\ ToTarget(drone) * ToTarget(drone) = ToTargetSq(drone)
               /\ ToTarget(drone) = Max(ToTarget(prev) - movement_speed \div TicksPerSecond, 0)

C3_Witness ==
    /\ lastOp = "tick"
    /\ Seeking(prev)
    /\ ToTarget(prev) >= SnapDistance
    /\ ToTarget(prev) < movement_speed \div TicksPerSecond
    /\ AtTarget(drone)
    /\ drone.moving_to_target

\* C4: the position always satisfies lat in [-90,90], lon in [-180,180], alt >= 0.
C4_PositionInRange ==
    /\ -LatMax <= drone.latitude /\ drone.latitude <= LatMax
    /\ -LonMax <= drone.longitude /\ drone.longitude <= LonMax
    /\ drone.altitude >= 0

\* C5: a takeoff succeeds exactly when the vehicle was Grounded; a takeoff
\* issued while Airborne answers "error" and leaves every field as it was.
C5_TakeoffOnlyWhileGrounded ==
    lastOp = "takeoff" =>
        IF prev.is_flying
        THEN result = "error" /\ drone = prev
        ELSE result = "success" /\ drone.is_flying

\* two takeoffs in a row: the second found the vehicle Airborne
C5_Witness ==
    /\ lastOp = "takeoff"
    /\ nCmds = 2
    /\ nTicks = 0
    /\ prev.is_flying
    /\ prev.altitude = DefaultAltitude

\* C6: move and move_to with valid arguments issued while Grounded answer
\* "error" and leave every field of the vehicle state as it was.
C6_GroundedMoveChangesNothing ==
    (lastOp \in {"move", "move_to"} /\ ~prev.is_flying /\ result # "invalid") =>
        /\ result = "error"
        /\ drone = prev

C6_Witness ==
    /\ lastOp \in {"move", "move_to"}
    /\ ~prev.is_flying
    /\ result = "error"
    /\ prev.battery < BatteryFull

\* C7: land while Airborne grounds the vehicle, zeroes altitude and speed and
\* clears Seeking, leaving latitude, longitude and battery as they were; land
\* while Grounded answers "error" and changes nothing.
C7_LandResets ==
    lastOp = "land" =>
        IF prev.is_flying
        THEN /\ result = "success"
             /\ ~drone.is_flying
             /\ drone.altitude = 0
             /\ drone.speed = 0
             /\ ~drone.moving_to_target
             /\ drone.latitude = prev.latitude
             /\ drone.longitude = prev.longitude
             /\ drone.battery = prev.battery
        ELSE /\ result = "error"
             /\ drone = prev

C7_Witness ==
    /\ lastOp = "land"
    /\ prev.is_flying
    /\ prev.moving_to_target
    /\ prev.speed > 0
    /\ prev.altitude # 0
    /\ prev.latitude # 0

\* C8 as stated: a broadcast pass in which a push fails removes that subscriber
\* from websocket_connections, still delivers the pass's mapping to every other
\* subscriber that was in the list when the pass began (and is still connected),
\* and no coroutine's loop ends.
C8_FailedPushIsolated ==
    \A w \in Ws :
        /\ task[w].pc \notin {"closed", "crashed"}
        /\ task[w].pc = "sleep" =>
              /\ pass[w].failedPush \cap SeqToSet(websocket_connections) = {}
              /\ \A s \in pass[w].start \ pass[w].failedPush :
                     open[s] => s \in pass[w].delivered

\* C9 as stated: within one second every subscriber receives at most one mapping
\* and every vehicle is queried at most once, however many subscribers there are.
C9_OneMappingPerRound ==
    /\ \A s \in Ws : recv[s] <= 1
    /\ \A v \in DroneIds : polls[v] <= 1

\* the rows a coroutine has queried so far in its round
Queried(t) == {t.drones[i] : i \in 1..t.k}

C16_TickDriftsWhenIdle ==
    lastOp = "tick" =>
        /\ ~prev.is_flying => drone = prev
        /\ (prev.is_flying /\ ~prev.moving_to_target) =>
               /\ drone.latitude = prev.latitude + DriftStep
               /\ drone.longitude = prev.longitude + DriftStep
               /\ drone.altitude = prev.altitude
               /\ drone.battery = prev.battery - 1
               /\ <<drone.latitude, drone.longitude>> # <<prev.latitude, prev.longitude>>

\* two drift ticks in a row
C16_Witness ==
    /\ lastOp = "tick"
    /\ prev.is_flying
    /\ ~prev.moving_to_target
    /\ prev.latitude = DriftStep
    /\ drone.latitude = 2 * DriftStep

\* C20: a Grounded vehicle has altitude 0, speed 0 and moving_to_target false;
\* so a successful takeoff leaves moving_to_target false, whatever target was
\* stored before the landing.
C20_GroundedIsReset ==
    /\ ~drone.is_flying =>
           /\ drone.altitude = 0
           /\ drone.speed = 0
           /\ ~drone.moving_to_target
    /\ (lastOp = "takeoff" /\ result = "success") => ~drone.moving_to_target

\* takeoff, move_to, land, takeoff with no tick in between: the vehicle landed
\* while Seeking and is airborne again
C20_Witness ==
    /\ lastOp = "takeoff"
    /\ result = "success"
    /\ nCmds = 4
    /\ nTicks = 0
    /\ goal # {}
    /\ ~drone.moving_to_target

\* C15: no battery update is lost and the battery never increases: it always
\* equals 100 - 0.01 * (moves made while Airborne + drift ticks + seek ticks
\* that did not snap), below 0 as well.
C15_BatteryCountsEveryDrain ==
    /\ drone.battery = BatteryFull - drains
    /\ drone.battery <= prev.battery

\* a command and a tick have each drained a battery that was at 0.01 percent or less
C15_Witness ==
    /\ drone.battery < 0
    /\ nCmds >= 1
    /\ nTicks >= 1

\* C14: once the pushes to a subscriber have failed and it has been removed from
\* websocket_connections, the task started for it begins no further polling
\* round or broadcast.
C14_NoRoundAfterTeardown ==
    \A w \in Ws : ~pass[w].orphan

RelayFailed == relayLast.outcome \in {"RequestError", "HTTPStatusError"}

\* C11: a relay command whose remote call fails is answered with the failure and
\* leaves every cached column unchanged; the row is written only by a handler
\* that has the vehicle's result in hand.
C11_FailedRelayKeepsCache ==
    /\ RelayFailed => cache = relayLast.cacheWas
    /\ cache # relayLast.cacheWas =>
           /\ relayLast.outcome = "returned"
           /\ relayLast.vres \in {"success", "error"}

\* a relayed move fails in transport after a relayed takeoff has set the row to flying
C11_Witness ==
    /\ relayLast.outcome = "RequestError"
    /\ relayLast.op = "move"
    /\ cache[relayLast.id].current_status = "flying"

\* C12: a relay command for an id that has no row is answered NotFound, without
\* a request to any vehicle and without a change to any row.
C12_UnknownIdIsNotFound ==
    /\ (relayLast.outcome # "none" /\ relayLast.id \notin relayLast.registryWas) =>
           relayLast.outcome = "NotFound"
    /\ relayLast.outcome = "NotFound" =>
           /\ relayLast.id \notin relayLast.registryWas
           /\ ~relayLast.called
           /\ cache = relayLast.cacheWas

\* a status request for an unknown id, while another id is registered and flying
C12_Witness ==
    /\ relayLast.outcome = "NotFound"
    /\ relayLast.op = "status"
    /\ \E v \in registry : cache[v].current_status = "flying"

\* C17: a move or move_to with an out-of-range coordinate or a negative altitude
\* changes nothing: the vehicle answers it without touching its state, and the
\* relay, which forwards it, answers with the failure and leaves the row alone.
C17_InvalidRequestChangesNothing ==
    /\ (lastOp \in {"move", "move_to"} /\ result = "invalid") => drone = prev
    /\ ( /\ relayLast.op \in {"move", "move_to"}
         /\ relayLast.req # <<>>
         /\ ~ValidRequest(relayLast.req[1], relayLast.req[2], relayLast.req[3]) ) =>
           /\ relayLast.outcome = "HTTPStatusError"
           /\ cache = relayLast.cacheWas

\* a relayed move_to with a negative altitude reaches a flying vehicle
C17_Witness ==
    /\ relayLast.outcome = "HTTPStatusError"
    /\ relayLast.op = "move_to"
    /\ relayLast.vres = "invalid"
    /\ lastOp = "move_to" /\ result = "invalid"
    /\ drone.is_flying

\* C19: a relayed move or move_to that the vehicle answers with an error result
\* leaves the cached position and altitude as they were, and when a relayed
\* takeoff or land returns, the cached status is the vehicle's flight state.
C19_CacheFollowsEffect ==
    relayLast.outcome = "returned" =>
        LET row == cache[relayLast.id]
            was == relayLast.cacheWas[relayLast.id]
        IN  /\ (relayLast.op \in {"move", "move_to"} /\ relayLast.vres = "error") =>
                   /\ row.current_lat = was.current_lat
                   /\ row.current_lng = was.current_lng
                   /\ row.current_altitude = was.current_altitude
            /\ relayLast.op \in {"takeoff", "land"} =>
                   (row.current_status = "flying") = relayLast.is_flying

\* a failed push has ended the subscriber's loop and closed its connection
SubStopped(s) ==
    subs[s].failed =>
        /\ subs[s].pc = "closed"
        /\ subs[s].closed
        /\ subs[s].attempts = subs[s].failedAt

\* the step in which a push to s fails touches no other coroutine
SubFailureIsolated ==
    \A s \in Subs :
        (subs'[s].failed /\ ~subs[s].failed) =>
            /\ \A u \in Subs \ {s} : subs'[u] = subs[u]
            /\ drone' = drone
            /\ nTicks' = nTicks

\* a subscriber loop is done for now: it has got its pushes through, or its
\* client has gone and it has ended
SubServed(u) ==
    \/ subs[u].pc = "idle"
    \/ subs[u].pc = "closed"
    \/ subs[u].pushed = MaxPushes /\ subs[u].client

\* C13: a failed push on the vehicle's telemetry channel ends that subscriber's
\* loop, no further push to it is attempted and its connection is closed; the
\* other subscribers' loops and the tick loop are untouched by it and go on.
C13_FailedPushEndsOnlyItsLoop ==
    /\ [](\A s \in Subs : SubStopped(s))
    /\ [][SubFailureIsolated]_vars
    /\ <>[]((\A u \in Subs : SubServed(u)) /\ nTicks = MaxTelemetryTicks)

\* the push to one subscriber has failed; another one has got all its pushes
\* and the tick loop has run
C13_Witness ==
    \E s \in Subs, u \in Subs :
        /\ subs[s].failed /\ subs[s].pc = "closed"
        /\ subs[u].client /\ subs[u].pushed = MaxPushes /\ subs[u].pc = "sleep"
        /\ nTicks = MaxTelemetryTicks

\* C18: a block area with radius <= 0, latitude outside [-90, 90] or longitude
\* outside [-180, 180] is rejected and no row is created; the id a creation
\* returned fetches exactly that id and the name, latitude, longitude and radius
\* that were submitted.
C18_BlockAreaRoundTrip ==
    /\ ( /\ lastCreate.status # 0
         /\ \/ lastCreate.query[4] <= 0
            \/ lastCreate.query[2] < -AreaLatMax \/ lastCreate.query[2] > AreaLatMax
            \/ lastCreate.query[3] < -AreaLonMax \/ lastCreate.query[3] > AreaLonMax ) =>
           /\ lastCreate.status = 400
           /\ block_areas = lastCreate.areasWas
    /\ lastCreate.status = 200 =>
           /\ lastCreate.body.id \in {c.id : c \in created}
           /\ Cardinality(block_areas) = Cardinality(lastCreate.areasWas) + 1
    /\ \A c \in fetched.createdWas :
           fetched.query = c.id => (fetched.status = 200 /\ fetched.body = c)

\* the id of the second area created is fetched; its digits need letters
C18_Witness ==
    /\ fetched.status = 200
    /\ fetched.query = <<"b", "-", "2">>
    /\ fetched.body.name = "tower"
    /\ fetched.body.latitude = -AreaLatMax
    /\ Cardinality(created) = MaxAreas

====
